---- MODULE Spec2Model ----
(***************************************************************************)
(* json-extractor.js: extractJson, isCompleteJson and completeTaskJson.    *)
(*                                                                         *)
(* Text is a sequence of one-character strings.  A JavaScript value is a   *)
(* tagged record: [t |-> "str", s |-> chars], [t |-> "num", n |-> Int],    *)
(* [t |-> "true"], [t |-> "false"], [t |-> "null"], [t |-> "undefined"],   *)
(* [t |-> "arr", a |-> <<values>>], [t |-> "obj", o |-> <<[k, v]>>] (own   *)
(* properties in enumeration order), [t |-> "throw", e |-> name] for a     *)
(* call that ended by raising.                                             *)
(***************************************************************************)
EXTENDS Integers, Sequences, FiniteSets

VARIABLES fn, text, pc, jsonText, fixedJson, converted, result, first

vars == <<fn, text, pc, jsonText, fixedJson, converted, result, first>>

----------------------------------------------------------------------------
(* Character classes of the regular expressions and of JSON.               *)

Lower == {"a","b","c","d","e","f","g","h","i","j","k","l","m",
          "n","o","p","q","r","s","t","u","v","w","x","y","z"}
Upper == {"A","B","C","D","E","F","G","H","I","J","K","L","M",
          "N","O","P","Q","R","S","T","U","V","W","X","Y","Z"}
Digit == {"0","1","2","3","4","5","6","7","8","9"}

\* \s of a JavaScript regular expression, and what String.prototype.trim
\* removes (of the characters the inputs are made of).
IsSpace(c) == c \in {" ", "\t", "\n", "\r", "\f"}
\* A line terminator, where ^ and $ match under the m flag.
IsLineTerminator(c) == c \in {"\n", "\r"}
\* \w
IsWord(c) == c \in Lower \cup Upper \cup Digit \cup {"_"}
\* [a-zA-Z_$] and [a-zA-Z0-9_$]
IsIdentStart(c) == c \in Lower \cup Upper \cup {"_", "$"}
IsIdentPart(c) == c \in Lower \cup Upper \cup Digit \cup {"_", "$"}
\* JSON's own whitespace (form feed is not part of it).
IsJsonSpace(c) == c \in {" ", "\t", "\n", "\r"}
\* A character JSON forbids raw inside a string (below U+0020).
IsControl(c) == c \in {"\t", "\n", "\r", "\f"}

\* The character at position i, "" past either end.
At(s, i) == IF i >= 1 /\ i <= Len(s) THEN s[i] ELSE ""
From(s, i) == SubSeq(s, i, Len(s))
Upto(s, i) == SubSeq(s, 1, i)
\* Whether lit occurs in s at position i.
HasAt(s, i, lit) ==
    /\ i >= 1
    /\ i + Len(lit) - 1 <= Len(s)
    /\ \A k \in 1..Len(lit) : s[i + k - 1] = lit[k]

Min(S) == CHOOSE x \in S : \A y \in S : x <= y
Max(S) == CHOOSE x \in S : \A y \in S : x >= y

RECURSIVE SkipSpace(_, _)
\* The first position at or after i that holds no \s character.
SkipSpace(s, i) == IF IsSpace(At(s, i)) THEN SkipSpace(s, i + 1) ELSE i

RECURSIVE SkipJsonSpace(_, _)
SkipJsonSpace(s, i) == IF IsJsonSpace(At(s, i)) THEN SkipJsonSpace(s, i + 1) ELSE i

----------------------------------------------------------------------------
(* JavaScript values.                                                      *)

Str(s) == [t |-> "str", s |-> s]
Num(n) == [t |-> "num", n |-> n]
True == [t |-> "true"]
False == [t |-> "false"]
Null == [t |-> "null"]
Undefined == [t |-> "undefined"]
Arr(a) == [t |-> "arr", a |-> a]
Obj(o) == [t |-> "obj", o |-> o]
Threw(e) == [t |-> "throw", e |-> e]
Bool(b) == IF b THEN True ELSE False

IsStr(v) == v.t = "str"
\* typeof v === 'object' && v !== null
IsObjectLike(v) == v.t \in {"obj", "arr"}
\* Array.isArray
IsArray(v) == v.t = "arr"

DigitVal(c) ==
    CASE c = "0" -> 0 [] c = "1" -> 1 [] c = "2" -> 2 [] c = "3" -> 3
      [] c = "4" -> 4 [] c = "5" -> 5 [] c = "6" -> 6 [] c = "7" -> 7
      [] c = "8" -> 8 [] c = "9" -> 9
DigitChar(d) == <<"0","1","2","3","4","5","6","7","8","9">>[d + 1]

RECURSIVE NatChars(_)
NatChars(n) == IF n < 10 THEN <<DigitChar(n)>> ELSE Append(NatChars(n \div 10), DigitChar(n % 10))
\* Number::toString of an integer (-0 prints as 0).
NumChars(n) == IF n < 0 THEN <<"-">> \o NatChars(0 - n) ELSE NatChars(n)

\* String(v) for the argument types the callers' mistakes produce.
StringOf(v) ==
    CASE v.t = "str" -> v.s
      [] v.t = "null" -> <<"n","u","l","l">>
      [] v.t = "undefined" -> <<"u","n","d","e","f","i","n","e","d">>
      [] v.t = "true" -> <<"t","r","u","e">>
      [] v.t = "false" -> <<"f","a","l","s","e">>
      [] v.t = "num" -> NumChars(v.n)

\* An array index as a property key: "0", or digits with no leading zero.
IsIndexKey(k) ==
    /\ Len(k) >= 1
    /\ \A i \in 1..Len(k) : k[i] \in Digit
    /\ (Len(k) > 1 => k[1] # "0")
RECURSIVE KeyVal(_)
KeyVal(k) == IF Len(k) = 0 THEN 0 ELSE 10 * KeyVal(Upto(k, Len(k) - 1)) + DigitVal(k[Len(k)])

HasKey(o, k) == \E i \in 1..Len(o) : o[i].k = k
\* o[k], undefined when o has no such own property.
Get(v, k) ==
    IF v.t = "obj" /\ HasKey(v.o, k)
    THEN v.o[CHOOSE i \in 1..Len(v.o) : v.o[i].k = k].v
    ELSE Undefined
\* o[k] = v on an ordinary object: an existing property keeps its place; a
\* new one goes after the others, integer keys first in ascending order.
Put(o, k, v) ==
    IF HasKey(o, k)
    THEN [i \in 1..Len(o) |-> IF o[i].k = k THEN [k |-> k, v |-> v] ELSE o[i]]
    ELSE IF IsIndexKey(k)
    THEN LET before == {i \in 1..Len(o) : IsIndexKey(o[i].k) /\ KeyVal(o[i].k) < KeyVal(k)}
             n == Cardinality(before)
         IN Upto(o, n) \o <<[k |-> k, v |-> v]>> \o From(o, n + 1)
    ELSE Append(o, [k |-> k, v |-> v])

\* The own enumerable properties of a value, as Object.values and the
\* spread syntax see them: an array's are its indices.
Props(v) ==
    CASE v.t = "obj" -> v.o
      [] v.t = "arr" -> [i \in 1..Len(v.a) |-> [k |-> NatChars(i - 1), v |-> v.a[i]]]
      [] OTHER -> <<>>

----------------------------------------------------------------------------
(* JSON.parse.  The inputs hold integers only: a fraction or an exponent   *)
(* is outside their alphabet, and so is a \u escape.                       *)

Fail == [ok |-> FALSE, v |-> Undefined, i |-> 0]
Ok(v, i) == [ok |-> TRUE, v |-> v, i |-> i]

Unescape(c) ==
    CASE c = "\"" -> "\"" [] c = "\\" -> "\\" [] c = "/" -> "/"
      [] c = "n" -> "\n" [] c = "t" -> "\t" [] c = "r" -> "\r" [] c = "f" -> "\f"
      [] OTHER -> ""

RECURSIVE IsEscaped(_, _, _)
\* Whether the character at k follows a backslash that is not itself
\* escaped, in the string that starts at lo.
IsEscaped(s, lo, k) == k > lo /\ s[k - 1] = "\\" /\ ~IsEscaped(s, lo, k - 1)

RECURSIVE Concat(_, _, _)
\* f[lo] \o ... \o f[hi]
Concat(f, lo, hi) ==
    IF lo > hi THEN <<>>
    ELSE IF lo = hi THEN f[lo]
    ELSE LET mid == (lo + hi) \div 2 IN Concat(f, lo, mid) \o Concat(f, mid + 1, hi)

\* The string whose opening quote is just before position i: it ends at the
\* first quote that is not escaped, holds no raw control character, and
\* only the escapes JSON knows.
ScanString(s, i) ==
    LET quotes == {j \in i..Len(s) : s[j] = "\"" /\ ~IsEscaped(s, i, j)}
    IN IF quotes = {} THEN Fail
       ELSE LET e == Min(quotes)
                bad == \E k \in i..(e - 1) :
                          \/ IsControl(s[k])
                          \/ (IsEscaped(s, i, k) /\ Unescape(s[k]) = "")
                chars == [k \in i..(e - 1) |->
                            IF IsEscaped(s, i, k) THEN <<Unescape(s[k])>>
                            ELSE IF s[k] = "\\" THEN <<>>
                            ELSE <<s[k]>>]
            IN IF bad THEN Fail ELSE Ok(Str(Concat(chars, i, e - 1)), e + 1)

RECURSIVE ScanDigits(_, _, _)
ScanDigits(s, i, n) ==
    IF At(s, i) \in Digit THEN ScanDigits(s, i + 1, 10 * n + DigitVal(s[i])) ELSE Ok(Num(n), i)

\* -? (0 | [1-9][0-9]*)
ScanNumber(s, i) ==
    LET neg == At(s, i) = "-"
        j == IF neg THEN i + 1 ELSE i
        r == IF At(s, j) = "0" THEN Ok(Num(0), j + 1)
             ELSE IF At(s, j) \in Digit THEN ScanDigits(s, j, 0)
             ELSE Fail
    IN IF r.ok /\ neg THEN Ok(Num(0 - r.v.n), r.i) ELSE r

RECURSIVE ParseValue(_, _), ParseMembers(_, _, _), ParseElements(_, _, _)
ParseValue(s, i0) ==
    LET i == SkipJsonSpace(s, i0)
        c == At(s, i)
    IN CASE c = "{" ->
              LET j == SkipJsonSpace(s, i + 1)
              IN IF At(s, j) = "}" THEN Ok(Obj(<<>>), j + 1) ELSE ParseMembers(s, j, <<>>)
         [] c = "[" ->
              LET j == SkipJsonSpace(s, i + 1)
              IN IF At(s, j) = "]" THEN Ok(Arr(<<>>), j + 1) ELSE ParseElements(s, j, <<>>)
         [] c = "\"" -> ScanString(s, i + 1)
         [] c = "t" -> IF HasAt(s, i, <<"t","r","u","e">>) THEN Ok(True, i + 4) ELSE Fail
         [] c = "f" -> IF HasAt(s, i, <<"f","a","l","s","e">>) THEN Ok(False, i + 5) ELSE Fail
         [] c = "n" -> IF HasAt(s, i, <<"n","u","l","l">>) THEN Ok(Null, i + 4) ELSE Fail
         [] c = "-" \/ c \in Digit -> ScanNumber(s, i)
         [] OTHER -> Fail

\* "key" : value ( , "key" : value )* }   with i at the first key.
ParseMembers(s, i, acc) ==
    IF At(s, i) # "\"" THEN Fail
    ELSE LET key == ScanString(s, i + 1) IN
    IF ~key.ok THEN Fail
    ELSE LET j == SkipJsonSpace(s, key.i) IN
    IF At(s, j) # ":" THEN Fail
    ELSE LET val == ParseValue(s, j + 1) IN
    IF ~val.ok THEN Fail
    ELSE LET k == SkipJsonSpace(s, val.i)
             o == Put(acc, key.v.s, val.v)
         IN CASE At(s, k) = "}" -> Ok(Obj(o), k + 1)
              [] At(s, k) = "," -> ParseMembers(s, SkipJsonSpace(s, k + 1), o)
              [] OTHER -> Fail

\* value ( , value )* ]
ParseElements(s, i, acc) ==
    LET val == ParseValue(s, i) IN
    IF ~val.ok THEN Fail
    ELSE LET k == SkipJsonSpace(s, val.i)
             a == Append(acc, val.v)
         IN CASE At(s, k) = "]" -> Ok(Arr(a), k + 1)
              [] At(s, k) = "," -> ParseElements(s, k + 1, a)
              [] OTHER -> Fail

\* JSON.parse(String(arg)): [ok |-> TRUE, v |-> value], or ok = FALSE where
\* it throws SyntaxError.
JsonParse(arg) ==
    LET s == StringOf(arg)
        r == ParseValue(s, 1)
    IN IF r.ok /\ SkipJsonSpace(s, r.i) = Len(s) + 1 THEN r ELSE Fail

----------------------------------------------------------------------------
(* The text operations of extractJson, lines 12-33.                        *)

RECURSIVE TrimEnd(_)
TrimEnd(s) == IF Len(s) > 0 /\ IsSpace(s[Len(s)]) THEN TrimEnd(Upto(s, Len(s) - 1)) ELSE s
\* String.prototype.trim
Trim(s) == TrimEnd(From(s, SkipSpace(s, 1)))

\* Where ^ matches under the m flag.
AtLineStart(s, i) == i = 1 \/ IsLineTerminator(At(s, i - 1))

\* The backquote, which no TLA+ string can hold, is written "~" throughout;
\* no input uses "~" for anything else.
Backquote == "~"
Fence == <<Backquote, Backquote, Backquote>>
FenceJson == Fence \o <<"j","s","o","n">>

RECURSIVE DropAtLineStart(_, _, _)
\* s.replace(/^lit\s*/gm, '') from position i on: every occurrence of lit
\* at a line start goes, with the white space after it (line breaks too);
\* the search resumes where the match ended.
DropAtLineStart(s, i, lit) ==
    LET hits == {k \in i..Len(s) : AtLineStart(s, k) /\ HasAt(s, k, lit)}
    IN IF hits = {} THEN From(s, i)
       ELSE SubSeq(s, i, Min(hits) - 1)
              \o DropAtLineStart(s, SkipSpace(s, Min(hits) + Len(lit)), lit)

\* Where /~~~\s*$/m ends when it matches at position k, 0 when it does not:
\* the white space after the fence runs to the end of the text, or else the
\* match stops before the last line terminator in it, where $ matches.
FenceEnd(s, k) ==
    LET j == SkipSpace(s, k + 3)
        breaks == {b \in (k + 3)..(j - 1) : IsLineTerminator(s[b])}
    IN IF ~HasAt(s, k, Fence) THEN 0
       ELSE IF j > Len(s) THEN j
       ELSE IF breaks # {} THEN Max(breaks)
       ELSE 0

RECURSIVE DropAtLineEnd(_, _)
\* s.replace(/~~~\s*$/gm, '') from position i on.
DropAtLineEnd(s, i) ==
    LET hits == {k \in i..Len(s) : FenceEnd(s, k) # 0}
    IN IF hits = {} THEN From(s, i)
       ELSE SubSeq(s, i, Min(hits) - 1) \o DropAtLineEnd(s, FenceEnd(s, Min(hits)))

RECURSIVE SkipWord(_, _)
SkipWord(s, i) == IF IsWord(At(s, i)) THEN SkipWord(s, i + 1) ELSE i

\* s.replace(/^kw\s+\w+\s*=\s*/, '')
DropDeclaration(s, kw) ==
    LET a == Len(kw) + 1
        b == SkipSpace(s, a)
        c == SkipWord(s, b)
        d == SkipSpace(s, c)
    IN IF HasAt(s, 1, kw) /\ b > a /\ c > b /\ At(s, d) = "="
       THEN From(s, SkipSpace(s, d + 1))
       ELSE s

\* s.replace(/;?\s*$/, ''): the leftmost match is the trailing white space
\* with the one semicolon before it, if there is one.
DropTerminator(s) ==
    LET t == TrimEnd(s)
    IN IF Len(t) > 0 /\ t[Len(t)] = ";" THEN Upto(t, Len(t) - 1) ELSE t

\* Lines 12-23.
StripNoise(s) ==
    LET s1 == Trim(s)
        s2 == DropAtLineStart(s1, 1, FenceJson)
        s3 == DropAtLineStart(s2, 1, Fence)
        s4 == DropAtLineEnd(s3, 1)
        s5 == DropDeclaration(s4, <<"c","o","n","s","t">>)
        s6 == DropDeclaration(s5, <<"l","e","t">>)
        s7 == DropDeclaration(s6, <<"v","a","r">>)
    IN DropTerminator(s7)

\* s.match(/open[\s\S]*close/): from the first open to the last close after
\* it, null when there is none.
GreedyMatch(s, open, close) ==
    LET os == {i \in 1..Len(s) : s[i] = open}
        cs == {i \in 1..Len(s) : s[i] = close}
    IN IF os # {} /\ cs # {} /\ Min(os) < Max(cs)
       THEN Str(SubSeq(s, Min(os), Max(cs)))
       ELSE Null

\* Lines 26-33: the object match is preferred to the array match.
Candidate(s) ==
    LET objectMatch == GreedyMatch(s, "{", "}")
        arrayMatch == GreedyMatch(s, "[", "]")
    IN IF objectMatch # Null THEN objectMatch.s
       ELSE IF arrayMatch # Null THEN arrayMatch.s
       ELSE s

----------------------------------------------------------------------------
(* The structural repair pass, lines 43-74.  Every replace here has no g   *)
(* flag: it rewrites the leftmost match only.                              *)

\* Where key\s*:\s* ends when it matches at position i, 0 when it does not.
AfterColon(s, i, key) ==
    LET j == SkipSpace(s, i + Len(key))
    IN IF HasAt(s, i, key) /\ At(s, j) = ":" THEN SkipSpace(s, j + 1) ELSE 0

\* A regular expression's terminator: "" is $ (the end of the text, no m
\* flag), "}" and "," are themselves.
TermLen(term) == IF term = "" THEN 0 ELSE 1
TermText(term) == IF term = "" THEN <<>> ELSE <<term>>

\* s.replace(/(k1|k2|..)\s*:\s*term/, '$1: fill term') for quoted keys.
FixDangling(s, keys, term, fill) ==
    LET which(i) == {n \in 1..Len(keys) :
                        /\ AfterColon(s, i, keys[n]) # 0
                        /\ At(s, AfterColon(s, i, keys[n])) = term}
        hits == {i \in 1..Len(s) : which(i) # {}}
    IN IF hits = {} THEN s
       ELSE LET i == Min(hits)
                key == keys[Min(which(i))]
                j == AfterColon(s, i, key)
            IN Upto(s, i - 1) \o key \o <<":", " ">> \o fill \o TermText(term)
                 \o From(s, j + TermLen(term))

\* s.replace(/:\s*term/, ': ""term')
FixColon(s, term) ==
    LET hits == {i \in 1..Len(s) : s[i] = ":" /\ At(s, SkipSpace(s, i + 1)) = term}
    IN IF hits = {} THEN s
       ELSE LET i == Min(hits)
                j == SkipSpace(s, i + 1)
            IN Upto(s, i - 1) \o <<":", " ", "\"", "\"">> \o TermText(term)
                 \o From(s, j + TermLen(term))

\* s.replace(/,(\s*[}\]])/, '$1')
DropTrailingComma(s) ==
    LET hits == {i \in 1..Len(s) : s[i] = "," /\ At(s, SkipSpace(s, i + 1)) \in {"}", "]"}}
    IN IF hits = {} THEN s ELSE Upto(s, Min(hits) - 1) \o From(s, Min(hits) + 1)

\* Lines 69-74.
Close(s, open, close) ==
    IF At(s, 1) = open /\ At(s, Len(s)) # close THEN Append(s, close) ELSE s

KeyDependencies == <<"\"","d","e","p","e","n","d","e","n","c","i","e","s","\"">>
KeySubtasks == <<"\"","s","u","b","t","a","s","k","s","\"">>
StringKeys == <<<<"\"","t","i","t","l","e","\"">>, <<"\"","d","e","s","c","r","i","p","t","i","o","n","\"">>, <<"\"","d","e","t","a","i","l","s","\"">>, <<"\"","t","e","s","t","S","t","r","a","t","e","g","y","\"">>>>
EmptyArray == <<"[", "]">>
EmptyString == <<"\"", "\"">>

\* Lines 43-74: fixedJson.
Repair(s) ==
    LET f1 == FixDangling(s, <<KeyDependencies>>, "", EmptyArray)
        f2 == FixDangling(f1, <<KeyDependencies>>, "}", EmptyArray)
        f3 == FixDangling(f2, <<KeyDependencies>>, ",", EmptyArray)
        f4 == FixDangling(f3, <<KeySubtasks>>, "", EmptyArray)
        f5 == FixDangling(f4, <<KeySubtasks>>, "}", EmptyArray)
        f6 == FixDangling(f5, <<KeySubtasks>>, ",", EmptyArray)
        f7 == FixDangling(f6, StringKeys, "", EmptyString)
        f8 == FixDangling(f7, StringKeys, "}", EmptyString)
        f9 == FixDangling(f8, StringKeys, ",", EmptyString)
        f10 == FixColon(f9, "")
        f11 == FixColon(f10, "}")
        f12 == FixColon(f11, ",")
        f13 == DropTrailingComma(f12)
    IN Close(Close(f13, "{", "}"), "[", "]")

----------------------------------------------------------------------------
(* The literal-conversion pass, lines 84-87.                               *)

RECURSIVE SkipIdent(_, _)
SkipIdent(s, i) == IF IsIdentPart(At(s, i)) THEN SkipIdent(s, i + 1) ELSE i

\* Where /[{,]\s*[a-zA-Z_$][a-zA-Z0-9_$]*\s*:/ ends when it matches at
\* position i, 0 when it does not.
KeyEnd(s, i) ==
    LET a == SkipSpace(s, i + 1)
        c == SkipSpace(s, SkipIdent(s, a))
    IN IF At(s, i) \in {"{", ","} /\ IsIdentStart(At(s, a)) /\ At(s, c) = ":"
       THEN c + 1
       ELSE 0

RECURSIVE QuoteKeys(_, _)
\* s.replace(/([{,]\s*)([a-zA-Z_$][a-zA-Z0-9_$]*)\s*:/g, '$1"$2":') from
\* position i on.
QuoteKeys(s, i) ==
    LET hits == {k \in i..Len(s) : KeyEnd(s, k) # 0}
    IN IF hits = {} THEN From(s, i)
       ELSE LET k == Min(hits)
                a == SkipSpace(s, k + 1)
                b == SkipIdent(s, a)
            IN SubSeq(s, i, a - 1) \o <<"\"">> \o SubSeq(s, a, b - 1) \o <<"\"", ":">>
                 \o QuoteKeys(s, KeyEnd(s, k))

\* s.replace(/'/g, '"')
DoubleQuotes(s) == [i \in 1..Len(s) |-> IF s[i] = "'" THEN "\"" ELSE s[i]]

\* Lines 84-87: converted.
Convert(s) == DoubleQuotes(QuoteKeys(s, 1))

----------------------------------------------------------------------------
(* JSON.stringify(value, null, 2).                                         *)

Indent == 2

Escape(c) ==
    CASE c = "\"" -> <<"\\", "\"">> [] c = "\\" -> <<"\\", "\\">>
      [] c = "\n" -> <<"\\", "n">> [] c = "\t" -> <<"\\", "t">>
      [] c = "\r" -> <<"\\", "r">> [] c = "\f" -> <<"\\", "f">>
      [] OTHER -> <<c>>

EscapeAll(s) == Concat([k \in 1..Len(s) |-> Escape(s[k])], 1, Len(s))
\* QuoteJSONString
Quote(s) == <<"\"">> \o EscapeAll(s) \o <<"\"">>

Spaces(n) == [i \in 1..n |-> " "]

RECURSIVE Stringify(_, _), StringifyProps(_, _, _), StringifyItems(_, _, _)
\* SerializeJSONProperty with the current indentation of n spaces.
Stringify(v, n) ==
    CASE v.t = "str" -> Quote(v.s)
      [] v.t = "obj" ->
           IF Len(v.o) = 0 THEN <<"{", "}">>
           ELSE <<"{", "\n">> \o StringifyProps(v.o, 1, n + Indent)
                  \o <<"\n">> \o Spaces(n) \o <<"}">>
      [] v.t = "arr" ->
           IF Len(v.a) = 0 THEN <<"[", "]">>
           ELSE <<"[", "\n">> \o StringifyItems(v.a, 1, n + Indent)
                  \o <<"\n">> \o Spaces(n) \o <<"]">>
      [] OTHER -> StringOf(v)

StringifyProps(o, i, n) ==
    LET one == Spaces(n) \o Quote(o[i].k) \o <<":", " ">> \o Stringify(o[i].v, n)
    IN IF i = Len(o) THEN one ELSE one \o <<",", "\n">> \o StringifyProps(o, i + 1, n)

StringifyItems(a, i, n) ==
    LET one == Spaces(n) \o Stringify(a[i], n)
    IN IF i = Len(a) THEN one ELSE one \o <<",", "\n">> \o StringifyItems(a, i + 1, n)

JsonStringify(v) == Stringify(v, 0)

----------------------------------------------------------------------------
(* isCompleteJson, lines 106-129.                                          *)

TITLE == 
    <<"t","i","t","l","e">>
DESCRIPTION == 
    <<"d","e","s","c","r","i","p","t","i","o","n">>
DETAILS == 
    <<"d","e","t","a","i","l","s">>
TESTSTRATEGY == 
    <<"t","e","s","t","S","t","r","a","t","e","g","y">>
DEPENDENCIES == 
    <<"d","e","p","e","n","d","e","n","c","i","e","s">>

\* ToBoolean
Truthy(v) ==
    CASE v.t \in {"undefined", "null", "false"} -> FALSE
      [] v.t = "str" -> v.s # <<>>
      [] v.t = "num" -> v.n # 0
      [] OTHER -> TRUE
\* a || b
OrElse(a, b) == IF Truthy(a) THEN a ELSE b

\* The callback of line 118.
IsIncompleteValue(v) ==
    \/ v = Undefined
    \/ v = Null
    \/ (IsStr(v) /\ Trim(v.s) = <<>>)

\* parsed.title || parsed.description in the place of the two comparisons
\* with undefined.
LooksLikeTaskTruthy(parsed) == Truthy(Get(parsed, TITLE)) \/ Truthy(Get(parsed, DESCRIPTION))

\* Line 116.
LooksLikeTask(parsed) == Get(parsed, TITLE) # Undefined \/ Get(parsed, DESCRIPTION) # Undefined

isCompleteJson(arg) ==
    LET r == JsonParse(arg)
        parsed == r.v
    IN IF ~r.ok THEN False
       ELSE IF ~IsObjectLike(parsed) THEN False
       ELSE IF LooksLikeTask(parsed)
       THEN LET values == Props(parsed)
                hasIncompleteFields == \E i \in 1..Len(values) : IsIncompleteValue(values[i].v)
            IN Bool(~hasIncompleteFields)
       ELSE True

----------------------------------------------------------------------------
(* completeTaskJson, lines 136-173.                                        *)

GeneratedTitle == 
    <<"G","e","n","e","r","a","t","e","d"," ","T","a","s","k">>
GeneratedDescription == 
    <<"T","a","s","k"," ","g","e","n","e","r","a","t","e","d"," ","f","r","o","m"," ","i","n","c","o","m","p","l","e","t","e"," ","A","I"," ","r","e","s","p","o","n","s","e">>
GeneratedDetails == 
    <<"P","l","e","a","s","e"," ","r","e","v","i","e","w"," ","a","n","d"," ","u","p","d","a","t","e"," ","t","a","s","k"," ","d","e","t","a","i","l","s">>
ManualVerification == 
    <<"M","a","n","u","a","l"," ","v","e","r","i","f","i","c","a","t","i","o","n"," ","r","e","q","u","i","r","e","d">>
ErrorTitle == 
    <<"E","r","r","o","r"," ","R","e","c","o","v","e","r","y"," ","T","a","s","k">>
ErrorDescription == 
    <<"T","a","s","k"," ","c","r","e","a","t","e","d"," ","d","u","e"," ","t","o"," ","J","S","O","N"," ","p","a","r","s","i","n","g"," ","e","r","r","o","r">>
ErrorDetails == 
    <<"O","r","i","g","i","n","a","l"," ","A","I"," ","r","e","s","p","o","n","s","e"," ","c","o","u","l","d"," ","n","o","t"," ","b","e"," ","p","a","r","s","e","d","."," ","P","l","e","a","s","e"," ","r","e","v","i","e","w"," ","a","n","d"," ","u","p","d","a","t","e",".">>

\* Lines 146-152.
Defaults(parsed) ==
    << [k |-> TITLE, v |-> OrElse(Get(parsed, TITLE), Str(GeneratedTitle))],
       [k |-> DESCRIPTION, v |-> OrElse(Get(parsed, DESCRIPTION), Str(GeneratedDescription))],
       [k |-> DETAILS, v |-> OrElse(Get(parsed, DETAILS), Str(GeneratedDetails))],
       [k |-> TESTSTRATEGY, v |-> OrElse(Get(parsed, TESTSTRATEGY), Str(ManualVerification))],
       [k |-> DEPENDENCIES, v |-> IF IsArray(Get(parsed, DEPENDENCIES))
                                   THEN Get(parsed, DEPENDENCIES) ELSE Arr(<<>>)] >>

RECURSIVE PutAll(_, _, _)
PutAll(o, props, i) ==
    IF i > Len(props) THEN o ELSE PutAll(Put(o, props[i].k, props[i].v), props, i + 1)
\* { ...a, ...b }: b's own properties are laid over a's.
Spread(a, b) == PutAll(a, Props(b), 1)

\* The merge without lines 158-160.
CompletedUnforced(parsed) == Obj(Spread(Defaults(parsed), parsed))

\* Lines 155-160.
Completed(parsed) ==
    LET completed == Spread(Defaults(parsed), parsed)
    IN IF ~IsArray(Get(Obj(completed), DEPENDENCIES))
       THEN Obj(Put(completed, DEPENDENCIES, Arr(<<>>)))
       ELSE Obj(completed)

\* Lines 165-171.
ErrorRecoveryTask ==
    Obj(<< [k |-> TITLE, v |-> Str(ErrorTitle)],
           [k |-> DESCRIPTION, v |-> Str(ErrorDescription)],
           [k |-> DETAILS, v |-> Str(ErrorDetails)],
           [k |-> TESTSTRATEGY, v |-> Str(ManualVerification)],
           [k |-> DEPENDENCIES, v |-> Arr(<<>>)] >>)

\* A value that is no object takes the catch branch instead of line 142.
completeTaskJsonScalarFails(arg) ==
    LET r == JsonParse(arg)
    IN IF r.ok /\ IsObjectLike(r.v)
       THEN Str(JsonStringify(Completed(r.v)))
       ELSE Str(JsonStringify(ErrorRecoveryTask))

completeTaskJson(arg) ==
    LET r == JsonParse(arg)
        parsed == IF IsObjectLike(r.v) THEN r.v ELSE Obj(<<>>)
    IN IF r.ok
       THEN Str(JsonStringify(Completed(parsed)))
       ELSE Str(JsonStringify(ErrorRecoveryTask))

----------------------------------------------------------------------------
(* The calls.  text is the argument, pc the place the call has reached,   *)
(* jsonText, fixedJson and converted are extractJson's locals (undefined   *)
(* until assigned), result is what the call returned or raised.  first is  *)
(* the result of the call before, when this call's argument is that        *)
(* result.                                                                 *)

Valid(v) == IsStr(v) /\ JsonParse(v).ok

\* Lines 10-33: text.trim() raises TypeError on a value with no trim method.
CallExtractJson ==
    /\ pc = "idle"
    /\ fn' = "extractJson"
    /\ IF IsStr(text)
       THEN /\ jsonText' = Str(Candidate(StripNoise(text.s)))
            /\ pc' = "parse"
            /\ result' = result
       ELSE /\ jsonText' = jsonText
            /\ pc' = "done"
            /\ result' = Threw("TypeError")
    /\ UNCHANGED <<text, fixedJson, converted, first>>

\* Lines 36-39.
TryParse ==
    /\ pc = "parse"
    /\ IF JsonParse(jsonText).ok
       THEN pc' = "done" /\ result' = jsonText
       ELSE pc' = "repair" /\ result' = result
    /\ UNCHANGED <<fn, text, jsonText, fixedJson, converted, first>>

\* Lines 41-79.
TryRepair ==
    /\ pc = "repair"
    /\ fixedJson' = Str(Repair(jsonText.s))
    /\ IF JsonParse(fixedJson').ok
       THEN pc' = "done" /\ result' = fixedJson'
       ELSE pc' = "convert" /\ result' = result
    /\ UNCHANGED <<fn, text, jsonText, converted, first>>

\* Line 95 returning the candidate instead of the argument.
TryConvertKeepsCandidate ==
    /\ pc = "convert"
    /\ converted' = Str(Convert(jsonText.s))
    /\ pc' = "done"
    /\ result' = IF JsonParse(converted').ok THEN converted' ELSE jsonText
    /\ UNCHANGED <<fn, text, jsonText, fixedJson, first>>

\* Line 84 reading fixedJson instead of jsonText.
TryConvertOfRepaired ==
    /\ pc = "convert"
    /\ converted' = Str(Convert(fixedJson.s))
    /\ pc' = "done"
    /\ result' = IF JsonParse(converted').ok THEN converted' ELSE text
    /\ UNCHANGED <<fn, text, jsonText, fixedJson, first>>

\* Lines 81-96.
TryConvert ==
    /\ pc = "convert"
    /\ converted' = Str(Convert(jsonText.s))
    /\ pc' = "done"
    /\ result' = IF JsonParse(converted').ok THEN converted' ELSE text
    /\ UNCHANGED <<fn, text, jsonText, fixedJson, first>>

\* Lines 106-129.
CallIsCompleteJson ==
    /\ pc = "idle"
    /\ fn' = "isCompleteJson"
    /\ pc' = "done"
    /\ result' = isCompleteJson(text)
    /\ UNCHANGED <<text, jsonText, fixedJson, converted, first>>

\* Lines 136-173.
CallCompleteTaskJson ==
    /\ pc = "idle"
    /\ fn' = "completeTaskJson"
    /\ pc' = "done"
    /\ result' = completeTaskJson(text)
    /\ UNCHANGED <<text, jsonText, fixedJson, converted, first>>

\* The caller hands the text a call returned to the next call of the same
\* function (a call on the very text it was given would be the same call
\* again).
Feed ==
    /\ pc = "done"
    /\ IsStr(result)
    /\ result # text
    /\ first = Undefined
    /\ first' = result
    /\ text' = result
    /\ pc' = "idle"
    /\ fn' = "none"
    /\ jsonText' = Undefined /\ fixedJson' = Undefined /\ converted' = Undefined
    /\ result' = Undefined

----------------------------------------------------------------------------
(* The arguments.                                                          *)

RECURSIVE Flatten(_)
Flatten(ss) == IF Len(ss) = 0 THEN <<>> ELSE ss[1] \o Flatten(Tail(ss))

\* All sequences of at most n members of 1..m.
Choices(m, n) == UNION {[1..k -> 1..m] : k \in 0..n}
Pick(items, c) == [i \in 1..Len(c) |-> items[c[i]]]
\* The texts made of at most n of the given pieces.
Texts(pieces, n) == {Flatten(Pick(pieces, c)) : c \in Choices(Len(pieces), n)}

RECURSIVE Join(_, _)
Join(ss, sep) ==
    IF Len(ss) = 0 THEN <<>>
    ELSE IF Len(ss) = 1 THEN ss[1]
    ELSE ss[1] \o sep \o Join(Tail(ss), sep)

\* A value that is no string, as a caller's mistake passes it.
NonStrings == {Null, Undefined}

MaxPieces == 3
\* What a model's reply is made of: fences, a declaration, a terminator,
\* whole and cut-off JSON, an object literal.
ExtractPieces ==
    << <<"[">>,
       <<"]">>,
       <<"{","\"","a","\"",":","1","}">>,
       <<"5">>,
       <<" ",";">>,
       <<"{","\"","t","\"",":">>,
       <<",","\"","d","e","p","e","n","d","e","n","c","i","e","s","\"",":">>,
       <<"{","a",":">>,
       <<"'",":",",","'","}">>,
       <<"~","~","~","j","s","o","n","\n">>,
       <<"\n","~","~","~">>,
       <<"c","o","n","s","t"," ","t"," ","="," ">>,
       <<"}">>,
       <<"\"",":",",","\"">> >>
ExtractInputs == {Str(t) : t \in Texts(ExtractPieces, MaxPieces)} \cup NonStrings

MaxMembers == 2
MaxElements == 2
ObjectTexts(members, n) ==
    {<<"{">> \o Join(Pick(members, c), <<",">>) \o <<"}">> : c \in Choices(Len(members), n)}
ArrayTexts(elements, n) ==
    {<<"[">> \o Join(Pick(elements, c), <<",">>) \o <<"]">> : c \in Choices(Len(elements), n)}
\* Texts that are no object and no array: scalars, and what does not parse.
OtherTexts ==
    { <<"5">>,
      <<"0">>,
      <<"\"","x","\"">>,
      <<"\"","\"">>,
      <<"t","r","u","e">>,
      <<"f","a","l","s","e">>,
      <<"n","u","l","l">>,
      <<"n","o","t"," ","j","s","o","n">>,
      <<"{","\"","t","i","t","l","e","\"",":">>,
      <<>> }

CheckMembers ==
    << <<"\"","t","i","t","l","e","\"",":","\"","x","\"">>,
       <<"\"","t","i","t","l","e","\"",":","n","u","l","l">>,
       <<"\"","d","e","s","c","r","i","p","t","i","o","n","\"",":","\""," ","\"">>,
       <<"\"","d","e","s","c","r","i","p","t","i","o","n","\"",":","\"","y","\"">>,
       <<"\"","k","\"",":","n","u","l","l">>,
       <<"\"","k","\"",":","\"","\"">>,
       <<"\"","k","\"",":","[","n","u","l","l","]">>,
       <<"\"","k","\"",":","1">>,
       <<"\"","d","\"",":","\"","\\","t","\"">> >>
CheckElements ==
    << <<"n","u","l","l">>,
       <<"\"","\"">>,
       <<"{","\"","t","i","t","l","e","\"",":","n","u","l","l","}">>,
       <<"1">> >>
CheckInputs ==
    {Str(t) : t \in ObjectTexts(CheckMembers, MaxMembers)
                      \cup ArrayTexts(CheckElements, MaxElements) \cup OtherTexts}
      \cup NonStrings

CompleteMembers ==
    << <<"\"","t","i","t","l","e","\"",":","\"","x","\"">>,
       <<"\"","t","i","t","l","e","\"",":","\"","\"">>,
       <<"\"","t","i","t","l","e","\"",":","n","u","l","l">>,
       <<"\"","d","e","s","c","r","i","p","t","i","o","n","\"",":","0">>,
       <<"\"","d","e","t","a","i","l","s","\"",":","\"","d","\"">>,
       <<"\"","t","e","s","t","S","t","r","a","t","e","g","y","\"",":","f","a","l","s","e">>,
       <<"\"","d","e","p","e","n","d","e","n","c","i","e","s","\"",":","[","1",",","\"","a","\"","]">>,
       <<"\"","d","e","p","e","n","d","e","n","c","i","e","s","\"",":","\"","x","\"">>,
       <<"\"","d","e","p","e","n","d","e","n","c","i","e","s","\"",":","n","u","l","l">>,
       <<"\"","d","e","p","e","n","d","e","n","c","i","e","s","\"",":","{","\"","a","\"",":","1","}">>,
       <<"\"","k","\"",":","\"","a","\\","\"","b","\"">> >>
CompleteElements ==
    << <<"1">>,
       <<"\"","x","\"">>,
       <<"{","\"","t","i","t","l","e","\"",":","\"","x","\"","}">>,
       <<"[","2","]">> >>
CompleteInputs ==
    {Str(t) : t \in ObjectTexts(CompleteMembers, MaxMembers)
                      \cup ArrayTexts(CompleteElements, MaxElements) \cup OtherTexts}
      \cup NonStrings

----------------------------------------------------------------------------
(* The specifications: one per function, over its arguments.               *)

InitWith(inputs) ==
    /\ text \in inputs
    /\ fn = "none" /\ pc = "idle"
    /\ jsonText = Undefined /\ fixedJson = Undefined /\ converted = Undefined
    /\ result = Undefined /\ first = Undefined

InitExtract == InitWith(ExtractInputs)
NextExtract == CallExtractJson \/ TryParse \/ TryRepair \/ TryConvert \/ Feed
SpecExtract == InitExtract /\ [][NextExtract]_vars

InitCheck == InitWith(CheckInputs)
NextCheck == CallIsCompleteJson
SpecCheck == InitCheck /\ [][NextCheck]_vars

InitComplete == InitWith(CompleteInputs)
NextComplete == CallCompleteTaskJson \/ Feed
SpecComplete == InitComplete /\ [][NextComplete]_vars

----------------------------------------------------------------------------
(* The claims.                                                             *)

Returned(f) == fn = f /\ pc = "done"
\* The text an argument parses as, and what it parses to.
Parsed(v) == JsonParse(v).v
CannedText == Str(JsonStringify(ErrorRecoveryTask))
Blank(s) == \A k \in 1..Len(s) : IsSpace(s[k])
StringFields == <<TITLE, DESCRIPTION, DETAILS, TESTSTRATEGY>>
StringDefaults == <<GeneratedTitle, GeneratedDescription, GeneratedDetails, ManualVerification>>

\* C1: whenever its argument parses, the object completeTaskJson returns
\* has title, description, details and testStrategy present, not null and
\* not the empty string; a parsed field that is present but falsy comes out
\* as its fixed default.
C1_StringFieldsFilled ==
    (Returned("completeTaskJson") /\ JsonParse(text).ok) =>
        \A n \in 1..4 :
            LET given == Get(Parsed(text), StringFields[n])
                out == Get(Parsed(result), StringFields[n])
            IN /\ out # Undefined /\ out # Null /\ out # Str(<<>>)
               /\ (given # Undefined /\ ~Truthy(given)) => out = Str(StringDefaults[n])

\* C2: for every argument, what completeTaskJson returns parses as a JSON
\* object whose dependencies is an array: the parsed dependencies when that
\* was an array, the empty array otherwise.
C2_DependenciesIsArray ==
    Returned("completeTaskJson") =>
        LET given == Get(Parsed(text), DEPENDENCIES)
        IN /\ Valid(result)
           /\ Parsed(result).t = "obj"
           /\ Get(Parsed(result), DEPENDENCIES)
                = IF JsonParse(text).ok /\ IsArray(given) THEN given ELSE Arr(<<>>)

\* A call whose argument parses with a dependencies that is no array has
\* returned.
C2_Witness ==
    /\ Returned("completeTaskJson")
    /\ JsonParse(text).ok
    /\ Get(Parsed(text), DEPENDENCIES) = Str(<<"x">>)
    /\ Get(Parsed(result), DEPENDENCIES) = Arr(<<>>)

\* C3: no call raises to its caller, whatever the argument, a value that is
\* no string included.
C3_NeverRaises == pc = "done" => result.t # "throw"

\* C4: for an argument that is valid JSON already, extractJson returns it
\* unchanged apart from the trimming of the white space around it.
C4_ValidJsonUnchanged ==
    (Returned("extractJson") /\ Valid(text)) => result = Str(Trim(text.s))

\* C5: extractJson is idempotent on its successful results: when the call
\* before returned valid JSON, the call on that result returns it again.
C5_Idempotent ==
    (Returned("extractJson") /\ first # Undefined /\ Valid(first)) => result = first

\* C6: for a string argument, extractJson returns text that parses as JSON
\* or the argument exactly as it was passed, never a candidate that fails
\* to parse.
C6_ValidOrVerbatim ==
    (Returned("extractJson") /\ IsStr(text)) => (Valid(result) \/ result = text)

\* Every stage failed on a candidate that differs from the argument, and
\* the argument came back.
C6_Witness ==
    /\ Returned("extractJson")
    /\ converted # Undefined
    /\ jsonText # text /\ fixedJson # text /\ converted # text
    /\ result = text
    /\ ~Valid(result)

\* What C7 says isCompleteJson answers for an argument.
C7_Expected(arg) ==
    LET r == JsonParse(arg)
        taskShaped == r.v.t = "obj" /\ (HasKey(r.v.o, TITLE) \/ HasKey(r.v.o, DESCRIPTION))
    IN /\ r.ok
       /\ r.v.t \in {"obj", "arr"}
       /\ taskShaped =>
            \A i \in 1..Len(r.v.o) :
                /\ r.v.o[i].v # Null
                /\ ~(IsStr(r.v.o[i].v) /\ Blank(r.v.o[i].v.s))

\* C7: isCompleteJson returns true exactly when its argument parses to an
\* object or an array that has neither a title nor a description key, or
\* has one and no top-level value that is null or a blank string.
C7_CompleteExactly ==
    Returned("isCompleteJson") =>
        /\ result \in {True, False}
        /\ result = True <=> C7_Expected(text)

\* A task-shaped object with a null title was found incomplete.
C7_Witness ==
    /\ Returned("isCompleteJson")
    /\ JsonParse(text).ok
    /\ Get(Parsed(text), TITLE) = Null
    /\ result = False

\* The all-defaults task.
C8_AllDefaults ==
    Obj(<< [k |-> TITLE, v |-> Str(GeneratedTitle)],
           [k |-> DESCRIPTION, v |-> Str(GeneratedDescription)],
           [k |-> DETAILS, v |-> Str(GeneratedDetails)],
           [k |-> TESTSTRATEGY, v |-> Str(ManualVerification)],
           [k |-> DEPENDENCIES, v |-> Arr(<<>>)] >>)

\* C8 as stated: completeTaskJson returns the canned error task if and only
\* if its argument fails to parse; a scalar or null yields the all-defaults
\* task.
C8_CannedIffParseFails ==
    Returned("completeTaskJson") =>
        /\ result = CannedText <=> ~JsonParse(text).ok
        /\ (JsonParse(text).ok /\ ~IsObjectLike(Parsed(text))) => Parsed(result) = C8_AllDefaults

\* C8 as amended: completeTaskJson returns the canned error task whenever
\* its argument fails to parse; when the argument parses, it returns that
\* task only for an object that itself carries the canned title,
\* description and details; a scalar or null yields the all-defaults task.
C8_CannedWhenParseFails ==
    Returned("completeTaskJson") =>
        /\ ~JsonParse(text).ok => result = CannedText
        /\ (JsonParse(text).ok /\ result = CannedText) =>
              /\ Parsed(text).t = "obj"
              /\ Get(Parsed(text), TITLE) = Str(ErrorTitle)
              /\ Get(Parsed(text), DESCRIPTION) = Str(ErrorDescription)
              /\ Get(Parsed(text), DETAILS) = Str(ErrorDetails)
        /\ (JsonParse(text).ok /\ ~IsObjectLike(Parsed(text))) => Parsed(result) = C8_AllDefaults

\* The canned task came back for an argument that parses: the canned task
\* itself, handed on by the caller.
C8_Witness ==
    /\ Returned("completeTaskJson")
    /\ JsonParse(text).ok
    /\ text = CannedText
    /\ result = CannedText

\* C9: the stages of extractJson run in order and the first success wins:
\* a candidate that parses is returned as it is, with no repair and no
\* conversion; the repair runs only after that parse failed; the
\* conversion runs only after the repaired text failed too, and on the
\* candidate, not on the repaired text.
C9_StageOrder ==
    /\ (Returned("extractJson") /\ Valid(jsonText)) =>
          result = jsonText /\ fixedJson = Undefined /\ converted = Undefined
    /\ fixedJson # Undefined => ~Valid(jsonText)
    /\ converted # Undefined =>
          /\ fixedJson # Undefined
          /\ ~Valid(fixedJson)
          /\ converted = Str(Convert(jsonText.s))
    /\ (Returned("extractJson") /\ fixedJson # Undefined /\ Valid(fixedJson)) =>
          result = fixedJson /\ converted = Undefined

\* The repair changed the candidate and failed, and the conversion of the
\* unrepaired candidate was returned.
C9_Witness ==
    /\ Returned("extractJson")
    /\ fixedJson # Undefined /\ fixedJson # jsonText
    /\ converted # Undefined /\ Valid(converted)
    /\ result = converted

EndsWith(s, tail) == Len(s) >= Len(tail) /\ HasAt(s, Len(s) - Len(tail) + 1, tail)
\* A strict-JSON object text cut off right after a dangling "dependencies":
\* key: closing it with an empty array and a brace makes it an object.
CutAfterDependencies(v) ==
    /\ IsStr(v)
    /\ EndsWith(v.s, KeyDependencies \o <<":">>)
    /\ Valid(Str(v.s \o <<"[", "]", "}">>))
    /\ Parsed(Str(v.s \o <<"[", "]", "}">>)).t = "obj"

\* C10: for an object text cut off right after a dangling "dependencies":
\* key, extractJson returns valid JSON in which dependencies is the empty
\* array and every field before it keeps its value.
C10_CutOffDependenciesRepaired ==
    (Returned("extractJson") /\ CutAfterDependencies(text)) =>
        /\ Valid(result)
        /\ Parsed(result) = Parsed(Str(text.s \o <<"[", "]", "}">>))

====
